---------------------------- MODULE Spec2Model ----------------------------
(***************************************************************************)
(* The wallet state engine of src/src-tauri/fuego_wallet_real.cpp: the     *)
(* process-wide RealFuegoWallet instance, the C entry points that act on   *)
(* it, and its two background threads (sync_thread_func and                *)
(* mining_thread_func).                                                    *)
(*                                                                         *)
(* Every C entry point is one action, taken by the single caller thread.   *)
(* The two worker threads are modelled at the granularity of their memory  *)
(* accesses (the fields they share with the caller are plain, unguarded    *)
(* members), so a worker step can fall between any two caller operations   *)
(* and a caller operation between any two worker accesses.                 *)
(*                                                                         *)
(* std::terminate (a joinable std::thread destroyed or assigned over) and a*)
(* dereference of the null g_real_wallet end the process: `terminated`     *)
(* records the cause and no action is enabled afterwards.                  *)
(***************************************************************************)
EXTENDS Integers, Sequences, FiniteSets, TLC

(***************************************************************************)
(* Bounds of the model.  Heights are scaled down: NetworkTip stands for    *)
(* the network height 964943 of connect_to_network, StepMin..StepMax for   *)
(* the worker's uniform_int_distribution(100, 1000).  The scaled values    *)
(* keep what the code's values have: StepMin < StepMax, the first progress *)
(* of start_sync_process and the increment of update_sync_progress both    *)
(* equal the largest worker step (1000), and the tip is not a multiple of  *)
(* that step.                                                              *)
(***************************************************************************)
NetworkTip == 5

StepMin == 1

StepMax == 2

MaxWallets == 2

MaxClock == 2

MaxTx == 2

MaxDeposits == 2

MaxMiningRounds == 1

\* the longest seed phrase tried, in words
MaxWords == 25

\* the highest use_count an address book entry is taken to
MaxUses == 2

(***************************************************************************)
(* Program constants.                                                      *)
(***************************************************************************)
PEER_COUNT == 22

MAX_MINING_THREADS == 32

HASHES_PER_ROUND == 100

HASHRATE_PER_THREAD == 1000

SENT_TX_PLACEHOLDER_AMOUNT == -10000000

RECEIVED_TX_MOCK_AMOUNT == 50000000

TX_MOCK_CONFIRMATIONS == 10

TX_MOCK_FEE == 100000

\* start_sync_process: sync_height = 1000
InitialProgress == StepMax

\* update_sync_progress: sync_height += 1000
RefreshStep == StepMax

\* fuego_wallet_create_deposit: term * 24 * 60 * 60 / 120, in 32-bit unsigned
\* arithmetic: (term * 86400 mod 2^32) / 120.  As 86400 = 675 * 2^7, the product
\* mod 2^32 is ((term * 675) mod 2^25) * 2^7, and a 2^7-fold of y divided by 120
\* is 16 * y divided by 15; this form stays within the integers of the checker
\* for every term below 2^31 / 675.
BlocksForTerm(term) == (((term * 675) % (2 ^ 25)) * 16) \div 15

\* "real_tx_" + the clock's count
TxHash(now) == <<"real_tx", now>>

\* "deposit_" + amount + "_" + term + "_" + the clock's seconds
DepositId(amount, term, now) == <<"deposit", amount, term, now>>

Handles == 0 .. MaxWallets

Clock == 1 .. MaxClock

Steps == StepMin .. StepMax

Amounts == {0, 1}

Terms == {0, 30}

\* terms on both sides of each rate tier, a term whose interest is a whole number,
\* and the two terms around the 32-bit wrap of term * 86400
DepositTerms == {30, 31, 90, 91, 175, 180, 181, 49710, 49711}

DepositAmounts == {0, 1, 365, 1000}

TxHashes == {TxHash(now) : now \in Clock}

\* thread counts on both sides of each limit of start_mining
ThreadCounts == {0, 1, MAX_MINING_THREADS, MAX_MINING_THREADS + 1}

VARIABLES
    g_real_wallet,          \* 0 = nullptr, n > 0 = the n-th RealFuegoWallet made
    is_open, is_connected, peer_count,
    sync_height, network_height, is_syncing,
    balance, unlocked_balance, transaction_hashes,
    deposits,
    seed_phrase, view_key, spend_key, has_keys,
    address,                \* the wallet's own address
    address_book,
    is_mining, hashrate, threads, total_hashes, valid_shares, invalid_shares,
    mining_start_time, last_share_time,
    mining_thread_running,  \* the flag the mining loop polls
    mining_thread,          \* the std::thread handle: "not_joinable" or "joinable"
    mining_pc,              \* where mining_thread_func stands
    sync_thread_running,    \* the flag the sync loop polls
    sync_thread,            \* the std::thread handle: "not_joinable" or "joinable"
    sync_pc,                \* where sync_thread_func stands
    sync_reg,               \* the value sync_thread_func computed for sync_height, not yet stored
    caller_pc,              \* "idle", or the call the caller thread is blocked in
    terminated,             \* "no", or why the process ended
    ret                     \* the last entry point that returned, and what it returned

lifeVars == <<g_real_wallet, is_open>>

netVars == <<is_connected, peer_count, sync_height, network_height, is_syncing>>

ledgerVars == <<balance, unlocked_balance, transaction_hashes>>

keyVars == <<seed_phrase, view_key, spend_key, has_keys>>

bookVars == <<address, address_book>>

miningVars == <<is_mining, hashrate, threads, total_hashes, valid_shares,
                invalid_shares, mining_start_time, last_share_time>>

miningThreadVars == <<mining_thread_running, mining_thread, mining_pc>>

syncThreadVars == <<sync_thread_running, sync_thread, sync_pc, sync_reg>>

vars == <<lifeVars, netVars, ledgerVars, deposits, keyVars, bookVars, miningVars, miningThreadVars,
          syncThreadVars, caller_pc, terminated, ret>>

(***************************************************************************)
(* What a call hands back.  Every entry point fills the same record, so    *)
(* that two results can always be compared.                                *)
(***************************************************************************)
NoInfo == [hash |-> <<>>, amount |-> 0, is_confirmed |-> FALSE, is_pending |-> FALSE,
           confirmations |-> 0, fee |-> 0]

NoSnapshot == [sync_height |-> 0, network_height |-> 0, is_syncing |-> FALSE,
               is_connected |-> FALSE, is_synced |-> FALSE]

\* the counters fuego_wallet_get_mining_stats_json prints
NoMiningStats == [is_mining |-> FALSE, hashrate |-> 0, threads |-> 0, total_hashes |-> 0,
                  valid_shares |-> 0, invalid_shares |-> 0, last_share_time |-> 0]

\* the four strings fuego_wallet_export_keys prints
NoKeys == [address |-> <<>>, view_key |-> <<>>, spend_key |-> <<>>, seed_phrase |-> <<>>]

\* SyncProgress; progress_percentage is a float: nan and inf tell whether it is
\* a NaN or infinite, percent is its whole part otherwise
NoProgress == [current_height |-> 0, total_height |-> 0, nan |-> FALSE, inf |-> FALSE,
               percent |-> 0, is_syncing |-> FALSE]

Ret(op, ok) == [op |-> op, ok |-> ok, amount |-> 0, hash |-> <<>>, info |-> NoInfo,
                list |-> <<>>, snap |-> NoSnapshot, mining |-> NoMiningStats,
                keys |-> NoKeys, progress |-> NoProgress]

Running == terminated = "no"

Idle == Running /\ caller_pc = "idle"

\* the caller's handle is the current instance (g_real_wallet.get() == wallet)
Current(h) == g_real_wallet = h

\* g_real_wallet is null and so is the handle: the comparison passes and the
\* entry point dereferences the null pointer
NullDeref(h) == g_real_wallet = 0 /\ h = 0

Crash(why) ==
    /\ terminated' = why
    /\ UNCHANGED <<lifeVars, keyVars, bookVars, netVars, ledgerVars, deposits, miningVars, miningThreadVars,
                   syncThreadVars, caller_pc, ret>>

\* an entry point called with a handle that is not the current instance
Reject(op) ==
    /\ ret' = Ret(op, FALSE)
    /\ UNCHANGED <<lifeVars, keyVars, bookVars, netVars, ledgerVars, deposits, miningVars, miningThreadVars,
                   syncThreadVars, caller_pc, terminated>>

Init ==
    /\ g_real_wallet = 0
    /\ is_open = FALSE
    /\ is_connected = FALSE
    /\ peer_count = 0
    /\ sync_height = 0
    /\ network_height = 0
    /\ is_syncing = FALSE
    /\ balance = 0
    /\ unlocked_balance = 0
    /\ transaction_hashes = <<>>
    /\ deposits = <<>>
    /\ seed_phrase = <<>>
    /\ view_key = <<>>
    /\ spend_key = <<>>
    /\ has_keys = FALSE
    /\ address = <<>>
    /\ address_book = <<>>
    /\ is_mining = FALSE
    /\ hashrate = 0
    /\ threads = 0
    /\ total_hashes = 0
    /\ valid_shares = 0
    /\ invalid_shares = 0
    /\ mining_start_time = 0
    /\ last_share_time = 0
    /\ mining_thread_running = FALSE
    /\ mining_thread = "not_joinable"
    /\ mining_pc = "none"
    /\ sync_thread_running = FALSE
    /\ sync_thread = "not_joinable"
    /\ sync_pc = "none"
    /\ sync_reg = 0
    /\ caller_pc = "idle"
    /\ terminated = "no"
    /\ ret = Ret("none", FALSE)

(***************************************************************************)
(* Wallet lifecycle.                                                       *)
(***************************************************************************)

\* generate_fuego_address: "fire" and 95 random hexadecimal digits; the digits
\* of the n-th instance stand as n
GeneratedAddress(n) == <<"fire", n>>

\* RealFuegoWallet::RealFuegoWallet and the member initialisers, followed by
\* load_wallet_data: the state of the instance create/open install
NewWallet ==
    /\ g_real_wallet' = g_real_wallet + 1
    /\ is_open' = TRUE
    /\ is_connected' = FALSE
    /\ peer_count' = 0
    /\ sync_height' = 0
    /\ network_height' = 0
    /\ is_syncing' = FALSE
    /\ balance' = 0
    /\ unlocked_balance' = 0
    /\ transaction_hashes' = <<>>
    /\ deposits' = <<>>
    /\ seed_phrase' = <<>>
    /\ view_key' = <<>>
    /\ spend_key' = <<>>
    /\ has_keys' = FALSE
    /\ address' = GeneratedAddress(g_real_wallet + 1)
    /\ address_book' = <<>>
    /\ is_mining' = FALSE
    /\ hashrate' = 0
    /\ threads' = 0
    /\ total_hashes' = 0
    /\ valid_shares' = 0
    /\ invalid_shares' = 0
    /\ mining_start_time' = 0
    /\ last_share_time' = 0
    /\ mining_thread_running' = FALSE
    /\ mining_thread' = "not_joinable"
    /\ mining_pc' = "none"
    /\ sync_thread_running' = FALSE
    /\ sync_thread' = "not_joinable"
    /\ sync_pc' = "none"
    /\ sync_reg' = 0

\* g_real_wallet = std::make_unique<RealFuegoWallet>() releases the previous
\* instance.  RealFuegoWallet declares no destructor, so its std::thread members
\* are destroyed as they are: a joinable one calls std::terminate.
ReplaceWallet(op) ==
    IF sync_thread = "joinable" \/ mining_thread = "joinable"
    THEN Crash("joinable_thread_destroyed")
    ELSE /\ NewWallet
         /\ ret' = Ret(op, TRUE)
         /\ UNCHANGED <<caller_pc, terminated>>

\* create never reads its seed_phrase argument (phrase)
fuego_wallet_create(phrase) ==
    /\ Idle
    /\ g_real_wallet < MaxWallets
    /\ ReplaceWallet("create")

fuego_wallet_open ==
    /\ Idle
    /\ g_real_wallet < MaxWallets
    /\ ReplaceWallet("open")

\* close returns nothing: ret.ok tells whether the handle was the current instance
fuego_wallet_close(h) ==
    /\ Idle
    /\ IF NullDeref(h) THEN Crash("null_dereference")
       ELSE IF Current(h)
       THEN /\ is_open' = FALSE
            /\ is_connected' = FALSE
            /\ ret' = Ret("close", TRUE)
            /\ UNCHANGED <<g_real_wallet, peer_count, sync_height, network_height,
                           is_syncing, ledgerVars, deposits, keyVars, bookVars,
                           miningVars,
                           miningThreadVars, syncThreadVars, caller_pc, terminated>>
       ELSE Reject("close")

\* if (g_real_wallet.get() == wallet) return g_real_wallet->is_open; return false;
fuego_wallet_is_open(h) ==
    /\ Idle
    /\ IF NullDeref(h) THEN Crash("null_dereference")
       ELSE IF ~Current(h) THEN Reject("is_open")
       ELSE /\ ret' = Ret("is_open", is_open)
            /\ UNCHANGED <<lifeVars, keyVars, bookVars, netVars, ledgerVars, deposits,
                           miningVars, miningThreadVars, syncThreadVars, caller_pc,
                           terminated>>

\* if (g_real_wallet.get() == wallet) return g_real_wallet->balance; return 0;
fuego_wallet_get_balance(h) ==
    /\ Idle
    /\ IF NullDeref(h) THEN Crash("null_dereference")
       ELSE IF ~Current(h) THEN Reject("get_balance")
       ELSE /\ ret' = [Ret("get_balance", TRUE) EXCEPT !.amount = balance]
            /\ UNCHANGED <<lifeVars, keyVars, bookVars, netVars, ledgerVars, deposits,
                           miningVars, miningThreadVars, syncThreadVars, caller_pc,
                           terminated>>

(***************************************************************************)
(* Network and the sync worker.                                            *)
(***************************************************************************)

\* RealFuegoWallet::connect_to_network with start_sync_process inlined.
\* sync_thread = std::thread(...) move-assigns over the handle: std::terminate
\* if the previous thread is still joinable.
connect_to_network ==
    /\ is_connected' = TRUE
    /\ peer_count' = PEER_COUNT
    /\ network_height' = NetworkTip
    /\ is_syncing' = TRUE
    /\ sync_height' = InitialProgress
    /\ sync_thread_running' = TRUE
    /\ IF sync_thread = "joinable"
       THEN /\ terminated' = "joinable_sync_thread_assigned"
            /\ UNCHANGED <<sync_thread, sync_pc, sync_reg>>
       ELSE /\ sync_thread' = "joinable"
            /\ sync_pc' = "loop"
            /\ UNCHANGED <<sync_reg, terminated>>

fuego_wallet_connect_node(h) ==
    /\ Idle
    /\ IF NullDeref(h) THEN Crash("null_dereference")
       ELSE IF ~Current(h) THEN Reject("connect_node")
       ELSE /\ connect_to_network
            /\ ret' = IF sync_thread = "joinable" THEN ret ELSE Ret("connect_node", TRUE)
            /\ UNCHANGED <<lifeVars, keyVars, bookVars, ledgerVars, deposits, miningVars,
                           miningThreadVars, caller_pc>>

\* RealFuegoWallet::update_sync_progress, as the caller of an entry point runs it
update_sync_progress ==
    IF is_syncing /\ sync_height < network_height
    THEN IF sync_height + RefreshStep > network_height
         THEN sync_height' = network_height /\ is_syncing' = FALSE
         ELSE sync_height' = sync_height + RefreshStep /\ is_syncing' = is_syncing
    ELSE UNCHANGED <<sync_height, is_syncing>>

\* what NetworkStatus / WalletInfo copy out, after update_sync_progress has run
Snapshot == [sync_height |-> sync_height', network_height |-> network_height,
             is_syncing |-> is_syncing', is_connected |-> is_connected,
             is_synced |-> ~is_syncing']

fuego_wallet_get_network_status(h) ==
    /\ Idle
    /\ IF NullDeref(h) THEN Crash("null_dereference")
       ELSE IF ~Current(h) THEN Reject("get_network_status")
       ELSE /\ update_sync_progress
            /\ ret' = [Ret("get_network_status", TRUE) EXCEPT !.snap = Snapshot]
            /\ UNCHANGED <<lifeVars, keyVars, bookVars, is_connected, peer_count, network_height, ledgerVars,
                           deposits, miningVars, miningThreadVars, syncThreadVars,
                           caller_pc, terminated>>

fuego_wallet_get_wallet_info(h) ==
    /\ Idle
    /\ IF NullDeref(h) THEN Crash("null_dereference")
       ELSE IF ~Current(h) THEN Reject("get_wallet_info")
       ELSE /\ update_sync_progress
            /\ ret' = [Ret("get_wallet_info", TRUE) EXCEPT !.snap = Snapshot]
            /\ UNCHANGED <<lifeVars, keyVars, bookVars, is_connected, peer_count, network_height, ledgerVars,
                           deposits, miningVars, miningThreadVars, syncThreadVars,
                           caller_pc, terminated>>

fuego_wallet_refresh(h) ==
    /\ Idle
    /\ IF NullDeref(h) THEN Crash("null_dereference")
       ELSE IF ~Current(h) THEN Reject("refresh")
       ELSE /\ update_sync_progress
            /\ ret' = Ret("refresh", TRUE)
            /\ UNCHANGED <<lifeVars, keyVars, bookVars, is_connected, peer_count, network_height, ledgerVars,
                           deposits, miningVars, miningThreadVars, syncThreadVars,
                           caller_pc, terminated>>

fuego_wallet_disconnect_node(h) ==
    /\ Idle
    /\ IF NullDeref(h) THEN Crash("null_dereference")
       ELSE IF ~Current(h) THEN Reject("disconnect_node")
       ELSE /\ is_connected' = FALSE
            /\ is_syncing' = FALSE
            /\ peer_count' = 0
            /\ ret' = Ret("disconnect_node", TRUE)
            /\ UNCHANGED <<lifeVars, keyVars, bookVars, sync_height, network_height, ledgerVars, deposits,
                           miningVars, miningThreadVars, syncThreadVars, caller_pc,
                           terminated>>

\* start_height is ignored by the code: (void)start_height; sync_height = 0
fuego_wallet_rescan_blockchain(h, start_height) ==
    /\ Idle
    /\ IF NullDeref(h) THEN Crash("null_dereference")
       ELSE IF ~Current(h) THEN Reject("rescan_blockchain")
       ELSE /\ sync_height' = 0
            /\ is_syncing' = TRUE
            /\ ret' = [Ret("rescan_blockchain", TRUE) EXCEPT !.amount = start_height]
            /\ UNCHANGED <<lifeVars, keyVars, bookVars, is_connected, peer_count, network_height, ledgerVars,
                           deposits, miningVars, miningThreadVars, syncThreadVars,
                           caller_pc, terminated>>

(***************************************************************************)
(* RealFuegoWallet::sync_thread_func, one action per memory access.        *)
(***************************************************************************)

\* while (sync_thread_running && sync_height < network_height)
SyncLoopTest ==
    /\ Running
    /\ sync_pc = "loop"
    /\ sync_pc' = IF sync_thread_running /\ sync_height < network_height
                  THEN "sleep" ELSE "done"
    /\ UNCHANGED <<lifeVars, keyVars, bookVars, netVars, ledgerVars, deposits, miningVars, miningThreadVars,
                   sync_thread_running, sync_thread, sync_reg, caller_pc, terminated, ret>>

\* the sleep ends; if (sync_height < network_height) the worker draws a step and
\* loads sync_height for sync_height += dis(gen)
SyncLoad(step) ==
    /\ Running
    /\ sync_pc = "sleep"
    /\ IF sync_height < network_height
       THEN sync_reg' = sync_height + step /\ sync_pc' = "store"
       ELSE sync_reg' = sync_reg /\ sync_pc' = "loop"
    /\ UNCHANGED <<lifeVars, keyVars, bookVars, netVars, ledgerVars, deposits, miningVars, miningThreadVars,
                   sync_thread_running, sync_thread, caller_pc, terminated, ret>>

\* the store of sync_height += dis(gen)
SyncStore ==
    /\ Running
    /\ sync_pc = "store"
    /\ sync_height' = sync_reg
    /\ sync_pc' = "clamp"
    /\ UNCHANGED <<lifeVars, keyVars, bookVars, is_connected, peer_count, network_height, is_syncing,
                   ledgerVars, deposits, miningVars, miningThreadVars,
                   sync_thread_running, sync_thread, sync_reg, caller_pc, terminated, ret>>

\* if (sync_height > network_height) { sync_height = network_height;
\*                                     is_syncing = false; break; }
SyncClamp ==
    /\ Running
    /\ sync_pc = "clamp"
    /\ IF sync_height > network_height
       THEN sync_height' = network_height /\ is_syncing' = FALSE /\ sync_pc' = "done"
       ELSE UNCHANGED <<sync_height, is_syncing>> /\ sync_pc' = "loop"
    /\ UNCHANGED <<lifeVars, keyVars, bookVars, is_connected, peer_count, network_height,
                   ledgerVars, deposits, miningVars, miningThreadVars,
                   sync_thread_running, sync_thread, sync_reg, caller_pc, terminated, ret>>

SyncWorker == SyncLoopTest \/ (\E step \in Steps : SyncLoad(step)) \/ SyncStore \/ SyncClamp

\* RealFuegoWallet::stop_sync_process up to the join: sync_thread_running = false
stop_sync_process ==
    /\ Idle
    /\ g_real_wallet # 0
    /\ sync_thread_running' = FALSE
    /\ caller_pc' = "stop_sync_join"
    /\ UNCHANGED <<lifeVars, keyVars, bookVars, netVars, ledgerVars, deposits, miningVars,
                   miningThreadVars, sync_thread, sync_pc, sync_reg, terminated, ret>>

\* if (sync_thread.joinable()) sync_thread.join(): join() returns once
\* sync_thread_func has returned
stop_sync_joined ==
    /\ Running
    /\ caller_pc = "stop_sync_join"
    /\ sync_thread = "joinable" => sync_pc = "done"
    /\ sync_thread' = "not_joinable"
    /\ caller_pc' = "idle"
    /\ ret' = Ret("stop_sync_process", TRUE)
    /\ UNCHANGED <<lifeVars, keyVars, bookVars, netVars, ledgerVars, deposits, miningVars,
                   miningThreadVars, sync_thread_running, sync_pc, sync_reg, terminated>>

(***************************************************************************)
(* Mining.                                                                 *)
(***************************************************************************)

InvalidThreadCount_zero_allowed(n) == n > MAX_MINING_THREADS

\* threads == 0 || threads > 32
InvalidThreadCount(n) == n = 0 \/ n > MAX_MINING_THREADS

Hashrate_flat(n) == HASHRATE_PER_THREAD

\* hashrate = threads * 1000.0: 1 KH/s per thread
Hashrate(n) == n * HASHRATE_PER_THREAD

fuego_wallet_start_mining(h, n, now) ==
    /\ Idle
    /\ IF NullDeref(h) THEN Crash("null_dereference")
       ELSE IF ~Current(h) \/ is_mining \/ InvalidThreadCount(n)
       THEN Reject("start_mining")
       ELSE /\ is_mining' = TRUE
            /\ threads' = n
            /\ mining_start_time' = now
            /\ total_hashes' = 0
            /\ valid_shares' = 0
            /\ invalid_shares' = 0
            /\ last_share_time' = 0
            /\ hashrate' = Hashrate(n)
            /\ mining_thread_running' = TRUE
            /\ IF mining_thread = "joinable"
               THEN /\ terminated' = "joinable_mining_thread_assigned"
                    /\ UNCHANGED <<mining_thread, mining_pc, ret>>
               ELSE /\ mining_thread' = "joinable"
                    /\ mining_pc' = "loop"
                    /\ ret' = Ret("start_mining", TRUE)
                    /\ UNCHANGED terminated
            /\ UNCHANGED <<lifeVars, keyVars, bookVars, netVars, ledgerVars, deposits, syncThreadVars,
                           caller_pc>>

\* fuego_wallet_stop_mining up to mining_thread.join(): the caller clears the flag
\* and blocks in join()
fuego_wallet_stop_mining(h) ==
    /\ Idle
    /\ IF NullDeref(h) THEN Crash("null_dereference")
       ELSE IF ~Current(h) \/ ~is_mining THEN Reject("stop_mining")
       ELSE /\ mining_thread_running' = FALSE
            /\ caller_pc' = "stop_mining_join"
            /\ UNCHANGED <<lifeVars, keyVars, bookVars, netVars, ledgerVars, deposits, miningVars,
                           mining_thread, mining_pc, syncThreadVars, terminated, ret>>

JoinReturns_at_once == TRUE

\* if (mining_thread.joinable()) mining_thread.join(): join() returns once
\* mining_thread_func has returned
JoinReturns == mining_thread = "joinable" => mining_pc = "done"

\* fuego_wallet_stop_mining from the return of join() (or past it, when the handle
\* is not joinable) to the end
stop_mining_joined ==
    /\ Running
    /\ caller_pc = "stop_mining_join"
    /\ JoinReturns
    /\ mining_thread' = "not_joinable"
    /\ mining_pc' = mining_pc
    /\ is_mining' = FALSE
    /\ threads' = 0
    /\ hashrate' = 0
    /\ caller_pc' = "idle"
    /\ ret' = Ret("stop_mining", TRUE)
    /\ UNCHANGED <<lifeVars, keyVars, bookVars, netVars, ledgerVars, deposits, total_hashes, valid_shares,
                   invalid_shares, mining_start_time, last_share_time,
                   mining_thread_running, syncThreadVars, terminated>>

\* fuego_wallet_get_mining_info copies is_mining, hashrate and threads
fuego_wallet_get_mining_info(h) ==
    /\ Idle
    /\ IF NullDeref(h) THEN Crash("null_dereference")
       ELSE IF ~Current(h) THEN Reject("get_mining_info")
       ELSE /\ ret' = [Ret("get_mining_info", TRUE) EXCEPT
                          !.mining = [NoMiningStats EXCEPT !.is_mining = is_mining,
                                                           !.hashrate = hashrate,
                                                           !.threads = threads]]
            /\ UNCHANGED <<lifeVars, keyVars, bookVars, netVars, ledgerVars, deposits, miningVars,
                           miningThreadVars, syncThreadVars, caller_pc, terminated>>

\* fuego_wallet_get_mining_stats_json reads the session's fields as they are, with
\* no lock against mining_thread_func
fuego_wallet_get_mining_stats_json(h) ==
    /\ Idle
    /\ IF NullDeref(h) THEN Crash("null_dereference")
       ELSE IF ~Current(h) THEN Reject("get_mining_stats_json")
       ELSE /\ ret' = [Ret("get_mining_stats_json", TRUE) EXCEPT
                          !.mining = [is_mining |-> is_mining,
                                      hashrate |-> hashrate,
                                      threads |-> threads,
                                      total_hashes |-> total_hashes,
                                      valid_shares |-> valid_shares,
                                      invalid_shares |-> invalid_shares,
                                      last_share_time |-> last_share_time]]
            /\ UNCHANGED <<lifeVars, keyVars, bookVars, netVars, ledgerVars, deposits, miningVars,
                           miningThreadVars, syncThreadVars, caller_pc, terminated>>

(***************************************************************************)
(* mining_thread_func, one action per step of an iteration.                *)
(***************************************************************************)

WorkerSeesRunning_stale == TRUE

\* the worker's read of mining_thread_running: the loop sleeps and prints through
\* library calls, so each test reads the field again
WorkerSeesRunning == mining_thread_running

\* while (mining_thread_running)
MiningLoopTest ==
    /\ Running
    /\ mining_pc = "loop"
    /\ mining_pc' = IF WorkerSeesRunning THEN "sleep" ELSE "done"
    /\ UNCHANGED <<lifeVars, keyVars, bookVars, netVars, ledgerVars, deposits, miningVars,
                   mining_thread_running, mining_thread, syncThreadVars, caller_pc,
                   terminated, ret>>

\* the sleep ends; if (!mining_thread_running) break; total_hashes += threads * 100
\* (a round is taken only while the model's round bound allows one)
HashesInRound_negative(n) == 0 - n * HASHES_PER_ROUND

\* threads * 100: each thread does 100 hashes in a round
HashesInRound(n) == n * HASHES_PER_ROUND

MiningWork ==
    /\ Running
    /\ mining_pc = "sleep"
    /\ IF ~WorkerSeesRunning
       THEN mining_pc' = "done" /\ UNCHANGED total_hashes
       ELSE /\ total_hashes < MaxMiningRounds * threads * HASHES_PER_ROUND
            /\ total_hashes' = total_hashes + HashesInRound(threads)
            /\ mining_pc' = "share"
    /\ UNCHANGED <<lifeVars, keyVars, bookVars, netVars, ledgerVars, deposits, is_mining, hashrate, threads,
                   valid_shares, invalid_shares, mining_start_time, last_share_time,
                   mining_thread_running, mining_thread, syncThreadVars, caller_pc,
                   terminated, ret>>

\* random_value = dis(gen): <= 5 a valid share, <= 10 an invalid share, else none
MiningShare(outcome) ==
    /\ Running
    /\ mining_pc = "share"
    /\ valid_shares' = IF outcome = "valid" THEN valid_shares + 1
                       ELSE valid_shares
    /\ invalid_shares' = IF outcome = "invalid" THEN invalid_shares + 1
                         ELSE invalid_shares
    /\ mining_pc' = IF outcome = "valid" THEN "stamp" ELSE "loop"
    /\ UNCHANGED <<lifeVars, keyVars, bookVars, netVars, ledgerVars, deposits, is_mining, hashrate, threads,
                   total_hashes, mining_start_time, last_share_time,
                   mining_thread_running, mining_thread, syncThreadVars, caller_pc,
                   terminated, ret>>

\* last_share_time = now, after valid_shares++
MiningStamp(now) ==
    /\ Running
    /\ mining_pc = "stamp"
    /\ last_share_time' = now
    /\ mining_pc' = "loop"
    /\ UNCHANGED <<lifeVars, keyVars, bookVars, netVars, ledgerVars, deposits, is_mining, hashrate, threads,
                   total_hashes, valid_shares, invalid_shares, mining_start_time,
                   mining_thread_running, mining_thread, syncThreadVars, caller_pc,
                   terminated, ret>>

MiningWorker ==
    \/ MiningLoopTest
    \/ MiningWork
    \/ \E outcome \in {"valid", "invalid", "none"} : MiningShare(outcome)
    \/ MiningStamp(MaxClock)

(***************************************************************************)
(* Transactions.  A hash is the tuple of the parts the code concatenates:  *)
(* "real_tx_" + clock is <<"real_tx", clock>>.                             *)
(***************************************************************************)

(***************************************************************************)
(* uint64_t values.  The counters of this model stay far from 2^64, except *)
(* that a subtraction can wrap below 0: an integer k >= 0 is the value k   *)
(* and k < 0 is the wrapped value 2^64 + k.                                *)
(***************************************************************************)
USub_off_by_one(a, b) == a - b - 1

USub(a, b) == a - b

ULe_unchecked(a, b) == TRUE

\* a <= b on uint64_t values
ULe(a, b) ==
    IF a >= 0 /\ b < 0 THEN TRUE
    ELSE IF a < 0 /\ b >= 0 THEN FALSE
    ELSE a <= b

InHistory(tx_hash) == \E i \in 1 .. Len(transaction_hashes) : transaction_hashes[i] = tx_hash

RecordTransaction_dropped(tx_hash) == transaction_hashes

\* transaction_hashes.push_back(tx_hash)
RecordTransaction(tx_hash) == Append(transaction_hashes, tx_hash)

fuego_wallet_send_transaction(h, amount, now) ==
    /\ Idle
    /\ Len(transaction_hashes) < MaxTx
    /\ IF NullDeref(h) THEN Crash("null_dereference")
       ELSE IF ~Current(h) THEN Reject("send_transaction")
       ELSE IF ULe(amount, balance)
       THEN /\ balance' = balance - amount
            /\ unlocked_balance' = USub(unlocked_balance, amount)
            /\ transaction_hashes' = RecordTransaction(TxHash(now))
            /\ ret' = [Ret("send_transaction", TRUE) EXCEPT !.amount = amount,
                                                            !.hash = TxHash(now)]
            /\ UNCHANGED <<lifeVars, keyVars, bookVars, netVars, deposits, miningVars, miningThreadVars,
                           syncThreadVars, caller_pc, terminated>>
       ELSE /\ ret' = [Ret("send_transaction", FALSE) EXCEPT !.amount = amount]
            /\ UNCHANGED <<lifeVars, keyVars, bookVars, netVars, ledgerVars, deposits, miningVars,
                           miningThreadVars, syncThreadVars, caller_pc, terminated>>

\* the TransactionInfo fuego_wallet_get_transaction_by_hash fills for tx_hash (its
\* height, timestamp and unlock_time are left out)
TransactionInfoFor(tx_hash) ==
    [hash |-> tx_hash,
     amount |-> IF InHistory(tx_hash) THEN SENT_TX_PLACEHOLDER_AMOUNT
                ELSE RECEIVED_TX_MOCK_AMOUNT,
     is_confirmed |-> TRUE,
     is_pending |-> FALSE,
     confirmations |-> TX_MOCK_CONFIRMATIONS,
     fee |-> TX_MOCK_FEE]

fuego_wallet_get_transaction_by_hash(h, tx_hash) ==
    /\ Idle
    /\ IF NullDeref(h) THEN Crash("null_dereference")
       ELSE IF ~Current(h) THEN Reject("get_transaction_by_hash")
       ELSE /\ ret' = [Ret("get_transaction_by_hash", TRUE)
                          EXCEPT !.hash = tx_hash, !.info = TransactionInfoFor(tx_hash)]
            /\ UNCHANGED <<lifeVars, keyVars, bookVars, netVars, ledgerVars, deposits, miningVars,
                           miningThreadVars, syncThreadVars, caller_pc, terminated>>

\* "For now, treat ID and hash as the same"
fuego_wallet_get_transaction_by_id(h, tx_id) ==
    /\ Idle
    /\ fuego_wallet_get_transaction_by_hash(h, tx_id)

\* limit and offset are not read: the whole history is copied out
fuego_wallet_get_transactions(h, limit, offset) ==
    /\ Idle
    /\ IF NullDeref(h) THEN Crash("null_dereference")
       ELSE IF ~Current(h) THEN Reject("get_transactions")
       ELSE /\ ret' = [Ret("get_transactions", TRUE) EXCEPT !.list = transaction_hashes]
            /\ UNCHANGED <<lifeVars, keyVars, bookVars, netVars, ledgerVars, deposits,
                           miningVars, miningThreadVars, syncThreadVars, caller_pc,
                           terminated>>

(***************************************************************************)
(* Deposits.  An id is <<"deposit", amount, term, seconds>>; the hashes    *)
(* derived from it prefix the same tuple.                                  *)
(***************************************************************************)

\* the annual rate in percent: 0.05, 0.08, 0.12, 0.15
RatePercent(term) ==
    IF term <= 30 THEN 5 ELSE IF term <= 90 THEN 8 ELSE IF term <= 180 THEN 12 ELSE 15

\* The rates 0.05, 0.08, 0.12 and 0.15 are doubles, none of them exact.  Of the
\* amounts and terms this model uses, the double amount * rate * term / 365.0 has
\* the whole part of the exact quotient for every pair but one: 365 * 0.12 * 175
\* / 365.0 is 20.999999999999996, where the exact quotient is 21.
DoubleBelowWhole == {<<365, 175>>}

\* static_cast<uint64_t>(amount * rate * term / 365.0)
Interest(amount, term) ==
    LET exact == (amount * RatePercent(term) * term) \div (100 * 365)
    IN  IF <<amount, term>> \in DoubleBelowWhole THEN exact - 1 ELSE exact

NewDeposit(amount, term, now) ==
    [id |-> DepositId(amount, term, now),
     amount |-> amount,
     term |-> term,
     rate |-> RatePercent(term),
     interest |-> Interest(amount, term),
     status |-> "locked",
     unlock_height |-> network_height + BlocksForTerm(term),
     creating_transaction_hash |-> <<"tx_">> \o DepositId(amount, term, now),
     creating_height |-> network_height,
     spending_transaction_hash |-> <<>>,
     spending_height |-> 0]

fuego_wallet_create_deposit(h, amount, term, now) ==
    /\ Idle
    /\ Len(deposits) < MaxDeposits
    /\ IF NullDeref(h) THEN Crash("null_dereference")
       ELSE IF ~Current(h) THEN Reject("create_deposit")
       ELSE /\ deposits' = Append(deposits, NewDeposit(amount, term, now))
            /\ ret' = [Ret("create_deposit", TRUE) EXCEPT !.amount = amount,
                                                          !.hash = DepositId(amount, term, now)]
            /\ UNCHANGED <<lifeVars, keyVars, bookVars, netVars, ledgerVars, miningVars, miningThreadVars,
                           syncThreadVars, caller_pc, terminated>>

\* std::find_if: the first deposit with this id, 0 when there is none
FindDeposit(deposit_id) ==
    IF \E i \in 1 .. Len(deposits) : deposits[i].id = deposit_id
    THEN CHOOSE i \in 1 .. Len(deposits) :
            /\ deposits[i].id = deposit_id
            /\ \A j \in 1 .. (i - 1) : deposits[j].id # deposit_id
    ELSE 0

Withdrawable_any(deposit) == TRUE

\* it->status != "unlocked" refuses the withdrawal
Withdrawable(deposit) == deposit.status = "unlocked"

fuego_wallet_withdraw_deposit(h, deposit_id) ==
    /\ Idle
    /\ IF NullDeref(h) THEN Crash("null_dereference")
       ELSE IF ~Current(h) THEN Reject("withdraw_deposit")
       ELSE LET it == FindDeposit(deposit_id) IN
            IF it = 0 \/ ~Withdrawable(deposits[it])
            THEN /\ ret' = [Ret("withdraw_deposit", FALSE) EXCEPT !.hash = deposit_id]
                 /\ UNCHANGED <<lifeVars, keyVars, bookVars, netVars, ledgerVars, deposits, miningVars,
                                miningThreadVars, syncThreadVars, caller_pc, terminated>>
            ELSE /\ deposits' = [deposits EXCEPT
                        ![it].status = "spent",
                        ![it].spending_transaction_hash = <<"withdraw_tx_">> \o deposit_id,
                        ![it].spending_height = network_height]
                 /\ ret' = [Ret("withdraw_deposit", TRUE)
                               EXCEPT !.hash = <<"withdraw_tx_">> \o deposit_id]
                 /\ UNCHANGED <<lifeVars, keyVars, bookVars, netVars, ledgerVars, miningVars,
                                miningThreadVars, syncThreadVars, caller_pc, terminated>>

\* fuego_wallet_get_deposits hands out the deposits vector as it is
fuego_wallet_get_deposits(h) ==
    /\ Idle
    /\ IF NullDeref(h) THEN Crash("null_dereference")
       ELSE IF ~Current(h) THEN Reject("get_deposits")
       ELSE /\ ret' = [Ret("get_deposits", TRUE) EXCEPT !.list = deposits]
            /\ UNCHANGED <<lifeVars, keyVars, bookVars, netVars, ledgerVars, deposits, miningVars,
                           miningThreadVars, syncThreadVars, caller_pc, terminated>>

(***************************************************************************)
(* Key management.  A seed phrase is the character sequence of the C       *)
(* string, or the null pointer; `words` is the number of words the input   *)
(* was put together from, which no entry point reads.                      *)
(***************************************************************************)
Word == <<"a", "b">>

Separators == {<<" ">>, <<" ", " ">>, <<"\t">>}

Margins == {<<>>, <<" ">>}

RECURSIVE JoinWords(_, _)
JoinWords(n, separator) ==
    IF n = 0 THEN <<>>
    ELSE IF n = 1 THEN Word
    ELSE JoinWords(n - 1, separator) \o separator \o Word

\* the word counts tried: none, one, and each accepted count with its neighbours
WordCounts ==
    {n \in 0 .. MaxWords : n <= 1 \/ \E k \in {12, 18, 24} : n \in (k - 1) .. (k + 1)}

NULL_SEED == [null |-> TRUE, words |-> 0, text |-> <<>>]

SeedPhrases ==
    {[null |-> FALSE, words |-> n, text |-> margin \o JoinWords(n, separator) \o margin] :
        n \in WordCounts, separator \in Separators, margin \in Margins}
    \cup {NULL_SEED}

IsSpace_blank_only(c) == c = " "

\* what operator>> of a stream skips between words
IsSpace(c) == c \in {" ", "\t", "\n"}

\* while (ss >> word) word_count++: each extraction skips the whitespace before
\* a word and takes the characters up to the next whitespace, so the loop runs
\* once for every position where a word begins
CountWords(text) ==
    Cardinality({i \in 1 .. Len(text) :
                    ~IsSpace(text[i]) /\ (i = 1 \/ IsSpace(text[i - 1]))})

\* the value fuego_wallet_validate_seed_phrase returns
ValidateSeedPhrase(phrase) ==
    IF phrase.null \/ Len(phrase.text) = 0 THEN FALSE
    ELSE CountWords(phrase.text) \in {12, 18, 24}

fuego_wallet_validate_seed_phrase(phrase) ==
    /\ Idle
    /\ ret' = [Ret("validate_seed_phrase", ValidateSeedPhrase(phrase))
                  EXCEPT !.amount = phrase.words]
    /\ UNCHANGED <<lifeVars, keyVars, bookVars, netVars, ledgerVars, deposits, miningVars,
                   miningThreadVars, syncThreadVars, caller_pc, terminated>>

\* std::string::substr(pos, count)
Substr(text, pos, count) ==
    SubSeq(text, pos + 1, IF pos + count < Len(text) THEN pos + count ELSE Len(text))

DerivedKeys_flag_not_set(text) ==
    [seed_phrase |-> text,
     view_key |-> <<"view_key_">> \o Substr(text, 0, 16) \o <<"_mock">>,
     spend_key |-> <<"spend_key_">> \o Substr(text, 16, 16) \o <<"_mock">>,
     has_keys |-> has_keys]

\* the four fields fuego_wallet_derive_keys_from_seed stores
DerivedKeys(text) ==
    [seed_phrase |-> text,
     view_key |-> <<"view_key_">> \o Substr(text, 0, 16) \o <<"_mock">>,
     spend_key |-> <<"spend_key_">> \o Substr(text, 16, 16) \o <<"_mock">>,
     has_keys |-> TRUE]

\* the handle and the pointer are tested first, then the phrase is validated,
\* and only then g_real_wallet is dereferenced
fuego_wallet_derive_keys_from_seed(h, phrase) ==
    /\ Idle
    /\ IF ~Current(h) \/ phrase.null \/ ~ValidateSeedPhrase(phrase)
       THEN /\ ret' = [Ret("derive_keys_from_seed", FALSE)
                          EXCEPT !.amount = phrase.words]
            /\ UNCHANGED <<lifeVars, keyVars, bookVars, netVars, ledgerVars, deposits, miningVars,
                           miningThreadVars, syncThreadVars, caller_pc, terminated>>
       ELSE IF g_real_wallet = 0 THEN Crash("null_dereference")
       ELSE LET keys == DerivedKeys(phrase.text) IN
            /\ seed_phrase' = keys.seed_phrase
            /\ view_key' = keys.view_key
            /\ spend_key' = keys.spend_key
            /\ has_keys' = keys.has_keys
            /\ ret' = [Ret("derive_keys_from_seed", TRUE)
                          EXCEPT !.amount = phrase.words]
            /\ UNCHANGED <<lifeVars, bookVars, netVars, ledgerVars, deposits, miningVars,
                           miningThreadVars, syncThreadVars, caller_pc, terminated>>

\* a const char* argument: the null pointer, or the characters of the string
NULL_TEXT == [null |-> TRUE, text |-> <<>>]

KeyTexts == {<<"k1">>, <<"k2">>}

OptionalKeyTexts == {NULL_TEXT} \cup {[null |-> FALSE, text |-> t] : t \in KeyTexts}

\* a bundle of key material as export_keys prints it; import_keys has parameters
\* for the address, the view key and the spend key only
KeyBundles == [address : OptionalKeyTexts, view_key : OptionalKeyTexts,
               spend_key : OptionalKeyTexts, seed_phrase : OptionalKeyTexts]

\* twelve-word phrases, for a wallet that derives its keys
VaultPhrases == {p \in SeedPhrases : p.words = 12}

fuego_wallet_export_keys(h) ==
    /\ Idle
    /\ IF NullDeref(h) THEN Crash("null_dereference")
       ELSE IF ~Current(h) \/ ~has_keys THEN Reject("export_keys")
       ELSE /\ ret' = [Ret("export_keys", TRUE) EXCEPT
                          !.keys = [address |-> address, view_key |-> view_key,
                                    spend_key |-> spend_key, seed_phrase |-> seed_phrase]]
            /\ UNCHANGED <<lifeVars, keyVars, bookVars, netVars, ledgerVars, deposits,
                           miningVars, miningThreadVars, syncThreadVars, caller_pc,
                           terminated>>

\* if (view_key) ...; if (spend_key) ...; if (address) ...; has_keys = true.
\* The stored seed phrase is not written.
fuego_wallet_import_keys(h, bundle) ==
    /\ Idle
    /\ IF NullDeref(h) THEN Crash("null_dereference")
       ELSE IF ~Current(h) THEN Reject("import_keys")
       ELSE /\ view_key' = IF bundle.view_key.null THEN view_key ELSE bundle.view_key.text
            /\ spend_key' = IF bundle.spend_key.null THEN spend_key
                            ELSE bundle.spend_key.text
            /\ address' = IF bundle.address.null THEN address ELSE bundle.address.text
            /\ has_keys' = TRUE
            /\ ret' = Ret("import_keys", TRUE)
            /\ UNCHANGED <<lifeVars, seed_phrase, address_book, netVars, ledgerVars,
                           deposits, miningVars, miningThreadVars, syncThreadVars,
                           caller_pc, terminated>>

(***************************************************************************)
(* Address book.                                                           *)
(***************************************************************************)
BookAddresses == {NULL_TEXT} \cup {[null |-> FALSE, text |-> t] : t \in {<<"addr1">>, <<"addr2">>}}

BookLabels == {NULL_TEXT, [null |-> FALSE, text |-> <<"label">>]}

InBook_never(addr) == FALSE

\* the loop of add: entry.address == address for some entry
InBook(addr) == \E i \in 1 .. Len(address_book) : address_book[i].address = addr

\* the first entry with this address (the loops of update, mark_used and get
\* return at the first match), 0 when there is none
FindEntry(addr) ==
    IF InBook(addr)
    THEN CHOOSE i \in 1 .. Len(address_book) :
            /\ address_book[i].address = addr
            /\ \A j \in 1 .. (i - 1) : address_book[j].address # addr
    ELSE 0

\* std::remove_if with erase: the entries of another address, in their order
RECURSIVE WithoutAddress(_, _)
WithoutAddress(book, addr) ==
    IF book = <<>> THEN <<>>
    ELSE IF Head(book).address = addr THEN WithoutAddress(Tail(book), addr)
    ELSE <<Head(book)>> \o WithoutAddress(Tail(book), addr)

NewEntry(addr, label, description, now) ==
    [address |-> addr.text,
     label |-> IF label.null THEN <<>> ELSE label.text,
     description |-> IF description.null THEN <<>> ELSE description.text,
     created_time |-> now,
     last_used_time |-> 0,
     use_count |-> 0]

\* what an address book entry point does when the handle is not the current
\* instance or the address is null
BookFrame == UNCHANGED <<lifeVars, keyVars, address, netVars, ledgerVars, deposits,
                         miningVars, miningThreadVars, syncThreadVars, caller_pc,
                         terminated>>

fuego_wallet_add_address_book_entry(h, addr, label, description, now) ==
    /\ Idle
    /\ IF ~Current(h) \/ addr.null THEN Reject("add_address_book_entry")
       ELSE IF g_real_wallet = 0 THEN Crash("null_dereference")
       ELSE IF InBook(addr.text) THEN Reject("add_address_book_entry")
       ELSE /\ address_book' = Append(address_book, NewEntry(addr, label, description, now))
            /\ ret' = Ret("add_address_book_entry", TRUE)
            /\ BookFrame

fuego_wallet_remove_address_book_entry(h, addr) ==
    /\ Idle
    /\ IF ~Current(h) \/ addr.null THEN Reject("remove_address_book_entry")
       ELSE IF g_real_wallet = 0 THEN Crash("null_dereference")
       ELSE IF ~InBook(addr.text) THEN Reject("remove_address_book_entry")
       ELSE /\ address_book' = WithoutAddress(address_book, addr.text)
            /\ ret' = Ret("remove_address_book_entry", TRUE)
            /\ BookFrame

fuego_wallet_update_address_book_entry(h, addr, label, description) ==
    /\ Idle
    /\ IF ~Current(h) \/ addr.null THEN Reject("update_address_book_entry")
       ELSE IF g_real_wallet = 0 THEN Crash("null_dereference")
       ELSE IF ~InBook(addr.text) THEN Reject("update_address_book_entry")
       ELSE LET i == FindEntry(addr.text) IN
            /\ address_book' = [address_book EXCEPT
                    ![i].label = IF label.null THEN @ ELSE label.text,
                    ![i].description = IF description.null THEN @ ELSE description.text]
            /\ ret' = Ret("update_address_book_entry", TRUE)
            /\ BookFrame

fuego_wallet_mark_address_used(h, addr, now) ==
    /\ Idle
    /\ IF ~Current(h) \/ addr.null THEN Reject("mark_address_used")
       ELSE IF g_real_wallet = 0 THEN Crash("null_dereference")
       ELSE IF ~InBook(addr.text) THEN Reject("mark_address_used")
       ELSE LET i == FindEntry(addr.text) IN
            /\ address_book[i].use_count < MaxUses
            /\ address_book' = [address_book EXCEPT ![i].use_count = @ + 1,
                                                    ![i].last_used_time = now]
            /\ ret' = Ret("mark_address_used", TRUE)
            /\ BookFrame

\* fuego_wallet_get_address_book hands out the vector as it is
fuego_wallet_get_address_book(h) ==
    /\ Idle
    /\ IF NullDeref(h) THEN Crash("null_dereference")
       ELSE IF ~Current(h) THEN Reject("get_address_book")
       ELSE /\ ret' = [Ret("get_address_book", TRUE) EXCEPT !.list = address_book]
            /\ UNCHANGED address_book
            /\ BookFrame

(***************************************************************************)
(* Specifications.                                                         *)
(***************************************************************************)

\* the wallet's lifecycle with both workers
Next ==
    \/ fuego_wallet_create(NULL_SEED)
    \/ fuego_wallet_open
    \/ \E h \in Handles : fuego_wallet_close(h)
    \/ \E h \in Handles : fuego_wallet_connect_node(h)
    \/ \E h \in Handles, n \in {0, 1} : fuego_wallet_start_mining(h, n, 1)
    \/ \E h \in Handles : fuego_wallet_stop_mining(h)
    \/ stop_mining_joined
    \/ SyncWorker
    \/ MiningWorker

Spec == Init /\ [][Next]_vars

\* the node connection and the sync worker, with no mining
\* (float)sync_height / (float)network_height * 100.0f, with no test of the
\* divisor: 0 / 0 is a NaN and a positive height over 0 is infinite; otherwise
\* percent is the whole part of the float (for the heights of this model the
\* float has the whole part of the exact quotient).
ProgressOf(current, total) ==
    [current_height |-> current, total_height |-> total,
     nan |-> (total = 0 /\ current = 0), inf |-> (total = 0 /\ current > 0),
     percent |-> IF total = 0 THEN 0 ELSE (current * 100) \div total,
     is_syncing |-> is_syncing]

\* fuego_wallet_get_sync_progress: reads the heights as they are (it does not call
\* update_sync_progress)
fuego_wallet_get_sync_progress(h) ==
    /\ Idle
    /\ IF NullDeref(h) THEN Crash("null_dereference")
       ELSE IF ~Current(h) THEN Reject("get_sync_progress")
       ELSE /\ ret' = [Ret("get_sync_progress", TRUE)
                         EXCEPT !.progress = ProgressOf(sync_height, network_height)]
            /\ UNCHANGED <<lifeVars, keyVars, bookVars, netVars, ledgerVars, deposits,
                           miningVars, miningThreadVars, syncThreadVars, caller_pc,
                           terminated>>

\* fuego_wallet_get_sync_status_json: the same quotient, printed into the JSON
fuego_wallet_get_sync_status_json(h) ==
    /\ Idle
    /\ IF NullDeref(h) THEN Crash("null_dereference")
       ELSE IF ~Current(h) THEN Reject("get_sync_status_json")
       ELSE /\ ret' = [Ret("get_sync_status_json", TRUE)
                         EXCEPT !.progress = ProgressOf(sync_height, network_height)]
            /\ UNCHANGED <<lifeVars, keyVars, bookVars, netVars, ledgerVars, deposits,
                           miningVars, miningThreadVars, syncThreadVars, caller_pc,
                           terminated>>

NextSync ==
    \/ fuego_wallet_create(NULL_SEED)
    \/ \E h \in Handles : fuego_wallet_close(h)
    \/ \E h \in Handles : fuego_wallet_connect_node(h)
    \/ \E h \in Handles : fuego_wallet_disconnect_node(h)
    \/ \E h \in Handles : fuego_wallet_refresh(h)
    \/ \E h \in Handles : fuego_wallet_get_network_status(h)
    \/ \E h \in Handles : fuego_wallet_get_wallet_info(h)
    \/ \E h \in Handles, start \in {0, 1} : fuego_wallet_rescan_blockchain(h, start)
    \/ \E h \in Handles : fuego_wallet_get_sync_progress(h)
    \/ \E h \in Handles : fuego_wallet_get_sync_status_json(h)
    \/ SyncWorker

SpecSync == Init /\ [][NextSync]_vars

\* the transaction ledger and the deposit list, with no worker started
NextLedger ==
    \/ fuego_wallet_create(NULL_SEED)
    \/ fuego_wallet_open
    \/ \E h \in Handles : fuego_wallet_close(h)
    \/ \E h \in Handles, amount \in Amounts, now \in Clock :
          fuego_wallet_send_transaction(h, amount, now)
    \/ \E h \in Handles, tx_hash \in TxHashes : fuego_wallet_get_transaction_by_hash(h, tx_hash)
    \/ \E h \in Handles, tx_id \in TxHashes : fuego_wallet_get_transaction_by_id(h, tx_id)
    \/ \E h \in Handles, limit \in 0 .. MaxTx, offset \in 0 .. MaxTx :
          fuego_wallet_get_transactions(h, limit, offset)
    \/ \E h \in Handles, term \in Terms : fuego_wallet_create_deposit(h, 1, term, 1)
    \/ \E h \in Handles, term \in Terms : fuego_wallet_withdraw_deposit(h, DepositId(1, term, 1))

SpecLedger == Init /\ [][NextLedger]_vars

\* deposits against a wallet that connects and syncs
NextDeposit ==
    \/ fuego_wallet_create(NULL_SEED)
    \/ \E h \in Handles : fuego_wallet_connect_node(h)
    \/ \E h \in Handles : fuego_wallet_refresh(h)
    \/ SyncWorker
    \/ \E h \in Handles, term \in Terms : fuego_wallet_create_deposit(h, 1, term, 1)
    \/ \E h \in Handles, term \in Terms : fuego_wallet_withdraw_deposit(h, DepositId(1, term, 1))
    \/ \E h \in Handles : fuego_wallet_get_deposits(h)

SpecDeposit == Init /\ [][NextDeposit]_vars

\* a mining session with its worker and the two status queries
NextMining ==
    \/ fuego_wallet_create(NULL_SEED)
    \/ \E h \in Handles : fuego_wallet_close(h)
    \/ \E h \in Handles, n \in ThreadCounts : fuego_wallet_start_mining(h, n, 1)
    \/ \E h \in Handles : fuego_wallet_stop_mining(h)
    \/ stop_mining_joined
    \/ MiningWorker
    \/ \E h \in Handles : fuego_wallet_get_mining_info(h)
    \/ \E h \in Handles : fuego_wallet_get_mining_stats_json(h)

SpecMining == Init /\ [][NextMining]_vars

\* wallet creation and the seed phrase of the key vault
NextKeys ==
    \/ \E phrase \in SeedPhrases : fuego_wallet_create(phrase)
    \/ \E h \in Handles : fuego_wallet_close(h)
    \/ \E phrase \in SeedPhrases : fuego_wallet_validate_seed_phrase(phrase)
    \/ \E h \in Handles, phrase \in SeedPhrases :
          fuego_wallet_derive_keys_from_seed(h, phrase)

SpecKeys == Init /\ [][NextKeys]_vars

\* key material derived, imported and exported
NextVault ==
    \/ fuego_wallet_create(NULL_SEED)
    \/ \E h \in Handles, phrase \in VaultPhrases :
          fuego_wallet_derive_keys_from_seed(h, phrase)
    \/ \E h \in Handles : fuego_wallet_export_keys(h)
    \/ \E h \in Handles, bundle \in KeyBundles : fuego_wallet_import_keys(h, bundle)

SpecVault == Init /\ [][NextVault]_vars

\* the address book
NextBook ==
    \/ fuego_wallet_create(NULL_SEED)
    \/ \E h \in Handles, addr \in BookAddresses, label \in BookLabels,
          description \in BookLabels :
          fuego_wallet_add_address_book_entry(h, addr, label, description, 1)
    \/ \E h \in Handles, addr \in BookAddresses :
          fuego_wallet_remove_address_book_entry(h, addr)
    \/ \E h \in Handles, addr \in BookAddresses, label \in BookLabels,
          description \in BookLabels :
          fuego_wallet_update_address_book_entry(h, addr, label, description)
    \/ \E h \in Handles, addr \in BookAddresses :
          fuego_wallet_mark_address_used(h, addr, MaxClock)
    \/ \E h \in Handles : fuego_wallet_get_address_book(h)

SpecBook == Init /\ [][NextBook]_vars

\* the sync worker against a caller of stop_sync_process
NextStopSync ==
    \/ fuego_wallet_create(NULL_SEED)
    \/ \E h \in Handles : fuego_wallet_connect_node(h)
    \/ \E h \in Handles : fuego_wallet_refresh(h)
    \/ stop_sync_process
    \/ stop_sync_joined
    \/ SyncWorker

SpecStopSync == Init /\ [][NextStopSync]_vars

\* a connected wallet whose sync worker is scheduled fairly; the only calls are
\* those that leave the connection alone, or end the process (a second
\* connect_node or create over the running worker)
NextSyncLive ==
    \/ fuego_wallet_create(NULL_SEED)
    \/ \E h \in Handles : fuego_wallet_connect_node(h)
    \/ \E h \in Handles : fuego_wallet_refresh(h)
    \/ \E h \in Handles : fuego_wallet_get_network_status(h)
    \/ SyncWorker

SpecSyncLive == Init /\ [][NextSyncLive]_vars /\ WF_vars(SyncWorker)

\* mining with the worker, and the caller blocked in join(), scheduled fairly
SpecMiningLive ==
    Init /\ [][NextMining]_vars /\ WF_vars(MiningWorker) /\ WF_vars(stop_mining_joined)

\* entry points called with current, stale and null handles
NextHandles ==
    \/ fuego_wallet_create(NULL_SEED)
    \/ fuego_wallet_open
    \/ \E h \in Handles : fuego_wallet_close(h)
    \/ \E h \in Handles : fuego_wallet_is_open(h)
    \/ \E h \in Handles : fuego_wallet_get_balance(h)
    \/ \E h \in Handles, amount \in Amounts, now \in Clock :
          fuego_wallet_send_transaction(h, amount, now)
    \/ \E h \in Handles : fuego_wallet_connect_node(h)

SpecHandles == Init /\ [][NextHandles]_vars

\* deposits of every rate tier, made before and after the wallet connects
NextTerms ==
    \/ fuego_wallet_create(NULL_SEED)
    \/ \E h \in Handles : fuego_wallet_connect_node(h)
    \/ \E h \in Handles : fuego_wallet_refresh(h)
    \/ \E h \in Handles, amount \in DepositAmounts, term \in DepositTerms :
          fuego_wallet_create_deposit(h, amount, term, 1)
    \/ \E h \in Handles : fuego_wallet_get_deposits(h)

SpecTerms == Init /\ [][NextTerms]_vars

(***************************************************************************)
(* Properties.                                                             *)
(***************************************************************************)

\* C1: after close() has returned for the current wallet, none of its worker
\* threads is still running or joinable: both were stopped and joined.
C1_CloseJoinsWorkers ==
    (ret.op = "close" /\ ret.ok) =>
        (sync_thread = "not_joinable" /\ mining_thread = "not_joinable")

\* C2: no wallet is destroyed while one of its worker threads is joinable
\* (create and open join the previous wallet's workers first).
C2_NoWalletDestroyedWithJoinableWorker == terminated # "joinable_thread_destroyed"

\* C3: connect_node never overwrites a joinable sync thread handle: a previous
\* sync worker is stopped and joined before the new one is started.
C3_SyncHandleNeverOverwritten == terminated # "joinable_sync_thread_assigned"

\* C4: in every state, sync height <= network height.
C4_SyncHeightWithinNetworkHeight == sync_height <= network_height

\* C5: unlocked_balance <= balance in every reachable state.
C5_UnlockedWithinBalance == ULe(unlocked_balance, balance)

\* a wallet that has sent, holds a deposit and was closed
C5_Witness ==
    /\ Len(transaction_hashes) > 0
    /\ Len(deposits) > 0
    /\ ~is_open

\* C6: once the sync worker's loop has ended with sync height = network height,
\* is_syncing is false, whether the height landed on the target or was clamped.
C6_SyncedMeansNotSyncing ==
    (sync_pc = "done" /\ sync_height = network_height) => ~is_syncing

\* C7: a send of amount A <= balance through the current handle takes exactly A
\* from balance and from unlocked_balance, appends exactly one entry to the
\* history and returns that entry's hash.
C7_SendDebitsAndRecords ==
    [][\A h \in Handles, amount \in Amounts, now \in Clock :
          (/\ fuego_wallet_send_transaction(h, amount, now)
           /\ Current(h) /\ ~NullDeref(h)
           /\ amount <= balance)
          => /\ balance' = balance - amount
             /\ unlocked_balance' = unlocked_balance - amount
             /\ Len(transaction_hashes') = Len(transaction_hashes) + 1
             /\ SubSeq(transaction_hashes', 1, Len(transaction_hashes)) = transaction_hashes
             /\ ret'.op = "send_transaction" /\ ret'.ok
             /\ ret'.hash = transaction_hashes'[Len(transaction_hashes')]]_vars

\* a second successful send has just returned the hash it appended
C7_Witness ==
    /\ ret.op = "send_transaction" /\ ret.ok
    /\ Len(transaction_hashes) >= 2
    /\ ret.hash = transaction_hashes[Len(transaction_hashes)]

\* C8: a send of amount A > balance through the current handle returns null and
\* leaves balance, unlocked_balance and the history as they were.
C8_InsufficientFundsChangesNothing ==
    [][\A h \in Handles, amount \in Amounts, now \in Clock :
          (/\ fuego_wallet_send_transaction(h, amount, now)
           /\ Current(h) /\ ~NullDeref(h)
           /\ amount > balance)
          => /\ ret'.op = "send_transaction" /\ ~ret'.ok
             /\ balance' = balance
             /\ unlocked_balance' = unlocked_balance
             /\ transaction_hashes' = transaction_hashes]_vars

\* a send of more than the balance was refused on a wallet that has a history
C8_Witness ==
    /\ ret.op = "send_transaction" /\ ~ret.ok
    /\ ret.amount > balance
    /\ Len(transaction_hashes) > 0

\* C9: looking up the hash a successful send of A has just returned yields an
\* outgoing transaction that is pending, not confirmed, with zero confirmations
\* and amount -A.
C9_SentTransactionIsPending ==
    [][(/\ ret.op = "send_transaction" /\ ret.ok
        /\ ret'.op = "get_transaction_by_hash" /\ ret'.ok
        /\ ret'.hash = ret.hash)
       => /\ ret'.info.is_pending
          /\ ~ret'.info.is_confirmed
          /\ ret'.info.confirmations = 0
          /\ ret'.info.amount = 0 - ret.amount]_vars

\* C10: a deposit status query made when sync height >= the unlock_height of a
\* locked deposit shows that deposit unlocked (and leaves it unlocked, so that
\* withdraw_deposit on it succeeds).
C10_MatureDepositUnlocksOnQuery ==
    [][\A h \in Handles :
          (fuego_wallet_get_deposits(h) /\ Current(h) /\ ~NullDeref(h))
          => \A i \in 1 .. Len(deposits) :
                (deposits[i].status = "locked" /\ sync_height >= deposits[i].unlock_height)
                => /\ deposits'[i].status = "unlocked"
                   /\ ret'.list[i].status = "unlocked"]_vars

\* C11: withdraw_deposit through the current handle succeeds only for a deposit
\* whose status is unlocked, and then sets exactly that deposit to spent; for an
\* unknown id or a deposit that is locked or spent it fails and leaves every
\* deposit as it was.  A spent deposit of the current wallet stays spent.
C11_WithdrawOnlyUnlocked ==
    /\ [][\A h \in Handles, term \in Terms :
             LET deposit_id == DepositId(1, term, 1)
                 it == FindDeposit(deposit_id)
             IN  (/\ fuego_wallet_withdraw_deposit(h, deposit_id)
                  /\ Current(h) /\ ~NullDeref(h))
                 => IF it # 0 /\ deposits[it].status = "unlocked"
                    THEN /\ ret'.op = "withdraw_deposit" /\ ret'.ok
                         /\ Len(deposits') = Len(deposits)
                         /\ deposits'[it].status = "spent"
                         /\ \A j \in 1 .. Len(deposits) :
                               j # it => deposits'[j] = deposits[j]
                    ELSE /\ ret'.op = "withdraw_deposit" /\ ~ret'.ok
                         /\ deposits' = deposits]_vars
    /\ [][g_real_wallet' = g_real_wallet
          => \A i \in 1 .. Len(deposits) :
                deposits[i].status = "spent"
                => i <= Len(deposits') /\ deposits'[i].status = "spent"]_vars

\* a withdrawal of a deposit that exists and is locked was refused, on a wallet
\* that holds two deposits
C11_Witness ==
    /\ ret.op = "withdraw_deposit" /\ ~ret.ok
    /\ Len(deposits) = MaxDeposits
    /\ FindDeposit(ret.hash) # 0
    /\ deposits[FindDeposit(ret.hash)].status = "locked"

\* C12: a start_mining through the current handle with thread count 0, thread
\* count > 32, or while mining is running returns failure, starts no worker and
\* leaves every field of the mining session as it was; a session that was not
\* running stays not running.
C12_RejectedStartChangesNothing ==
    [][\A h \in Handles, n \in ThreadCounts :
          (/\ fuego_wallet_start_mining(h, n, 1)
           /\ Current(h) /\ ~NullDeref(h)
           /\ (n = 0 \/ n > 32 \/ is_mining))
          => /\ ret'.op = "start_mining" /\ ~ret'.ok
             /\ UNCHANGED <<miningVars, miningThreadVars>>
             /\ ~is_mining => ~is_mining']_vars

\* a start with an invalid thread count was refused while no session was
\* running, on a wallet whose earlier session mined and was stopped
C12_Witness ==
    /\ ret.op = "start_mining" /\ ~ret.ok
    /\ g_real_wallet # 0
    /\ ~is_mining
    /\ total_hashes > 0
    /\ mining_thread = "not_joinable"

\* C13: when stop_mining has returned success the mining worker has exited and
\* been joined, is_mining is false, thread count and hashrate are 0; and while
\* no session runs, total_hashes, valid_shares and invalid_shares of the current
\* wallet change only by a successful start_mining.
C13_StopMiningQuiesces ==
    /\ []((ret.op = "stop_mining" /\ ret.ok)
          => /\ mining_thread = "not_joinable"
             /\ mining_pc \in {"none", "done"}
             /\ ~is_mining
             /\ threads = 0
             /\ hashrate = 0)
    /\ [][(/\ ~is_mining
           /\ g_real_wallet' = g_real_wallet
           /\ <<total_hashes, valid_shares, invalid_shares>>' #
                 <<total_hashes, valid_shares, invalid_shares>>)
          => (ret'.op = "start_mining" /\ ret'.ok /\ is_mining')]_vars

\* stop_mining has returned success for a session whose worker found a share
C13_Witness ==
    /\ ret.op = "stop_mining" /\ ret.ok
    /\ total_hashes > 0
    /\ valid_shares > 0

\* C14: the statistics snapshot never shows a partially applied worker
\* iteration: a snapshot that counts a valid share also carries the time of a
\* share (valid_shares is never seen incremented with last_share_time unset).
C14_MiningSnapshotIsConsistent ==
    (ret.op = "get_mining_stats_json" /\ ret.ok)
        => (ret.mining.valid_shares > 0 => ret.mining.last_share_time > 0)

\* C15: once disconnect_node has returned for the current wallet the sync worker
\* is stopped (its thread has ended and been joined), connected and syncing are
\* false and peer_count is 0; and sync height stays as it is until a connect_node
\* or a rescan (or a new wallet).
C15_DisconnectStopsSync ==
    /\ []((ret.op = "disconnect_node" /\ ret.ok)
          => /\ ~is_connected
             /\ ~is_syncing
             /\ peer_count = 0
             /\ sync_thread = "not_joinable")
    /\ [][(/\ ret.op = "disconnect_node" /\ ret.ok
           /\ ret'.op \notin {"connect_node", "rescan_blockchain", "create"})
          => sync_height' = sync_height]_vars

\* C16: on a wallet that was closed, send_transaction, create_deposit,
\* withdraw_deposit, connect_node and start_mining through its handle all fail,
\* change none of the state they act on and start no worker thread.
C16_ClosedWalletRefusesOperations ==
    [][\A h \in Handles :
          (Current(h) /\ h # 0 /\ ~is_open)
          => /\ \A amount \in Amounts, now \in Clock :
                   fuego_wallet_send_transaction(h, amount, now)
                   => ~ret'.ok /\ UNCHANGED ledgerVars
             /\ \A term \in Terms :
                   fuego_wallet_create_deposit(h, 1, term, 1)
                   => ~ret'.ok /\ UNCHANGED deposits
             /\ \A term \in Terms :
                   fuego_wallet_withdraw_deposit(h, DepositId(1, term, 1))
                   => ~ret'.ok /\ UNCHANGED deposits
             /\ fuego_wallet_connect_node(h)
                   => /\ ret'.op = "connect_node" /\ ~ret'.ok
                      /\ UNCHANGED <<netVars, syncThreadVars>>
             /\ \A n \in ThreadCounts :
                   fuego_wallet_start_mining(h, n, 1)
                   => /\ ret'.op = "start_mining" /\ ~ret'.ok
                      /\ UNCHANGED <<miningVars, miningThreadVars>>]_vars

\* C17: rescan(start_height) through the current handle sets sync height to
\* exactly start_height and syncing to true, whatever start_height is.
C17_RescanStartsAtStartHeight ==
    [][\A h \in Handles, start_height \in {0, 1} :
          (/\ fuego_wallet_rescan_blockchain(h, start_height)
           /\ Current(h) /\ ~NullDeref(h))
          => /\ ret'.op = "rescan_blockchain" /\ ret'.ok
             /\ sync_height' = start_height
             /\ is_syncing']_vars

\* C18: create() called with a seed phrase whose word count is not 12, 18 or 24
\* fails and yields no open wallet.
C18_CreateRejectsInvalidSeed ==
    [][\A phrase \in SeedPhrases :
          (/\ fuego_wallet_create(phrase)
           /\ ~phrase.null
           /\ phrase.words \notin {12, 18, 24})
          => /\ ~ret'.ok
             /\ ~is_open'
             /\ g_real_wallet' = g_real_wallet]_vars

\* C19: validate_seed_phrase accepts a phrase if and only if the phrase is made
\* of exactly 12, 18 or 24 whitespace-separated words (the null pointer and the
\* empty phrase, of no words, are rejected).
C19_ValidateCountsWords ==
    ret.op = "validate_seed_phrase" => (ret.ok <=> ret.amount \in {12, 18, 24})

\* an 18-word phrase was accepted
C19_Witness ==
    /\ ret.op = "validate_seed_phrase"
    /\ ret.ok
    /\ ret.amount = 18

\* C20: derive_keys_from_seed on the current wallet succeeds exactly when
\* validate_seed_phrase accepts the phrase; on success has_keys is true and the
\* phrase is stored, on failure the stored seed phrase, view key, spend key and
\* has_keys are unchanged.
C20_DeriveFollowsValidation ==
    [][\A h \in Handles, phrase \in SeedPhrases :
          (/\ Current(h) /\ h # 0
           /\ ret'.op = "derive_keys_from_seed"
           /\ ret'.amount = phrase.words
           /\ fuego_wallet_derive_keys_from_seed(h, phrase))
          => /\ ret'.ok <=> ValidateSeedPhrase(phrase)
             /\ ret'.ok => has_keys' /\ seed_phrase' = phrase.text
             /\ ~ret'.ok => UNCHANGED keyVars]_vars

\* a derivation was refused on a wallet that already holds the keys of an
\* earlier, accepted phrase
C20_Witness ==
    /\ ret.op = "derive_keys_from_seed" /\ ~ret.ok
    /\ g_real_wallet # 0
    /\ has_keys
    /\ Len(seed_phrase) > 0

\* C21: import_keys through the current handle installs exactly the bundle: the
\* address, view key, spend key and seed phrase held afterwards are those of the
\* bundle (nothing held before survives, an absent field included), and
\* export_keys returns exactly what is held, so that export after import returns
\* the imported bundle.
C21_KeyBundleRoundTrips ==
    /\ [][\A h \in Handles, bundle \in KeyBundles :
             (Current(h) /\ h # 0 /\ fuego_wallet_import_keys(h, bundle))
             => /\ ret'.op = "import_keys" /\ ret'.ok
                /\ has_keys'
                /\ address' = (IF bundle.address.null THEN <<>> ELSE bundle.address.text)
                /\ view_key' = (IF bundle.view_key.null THEN <<>> ELSE bundle.view_key.text)
                /\ spend_key' = (IF bundle.spend_key.null THEN <<>> ELSE bundle.spend_key.text)
                /\ seed_phrase' = (IF bundle.seed_phrase.null THEN <<>> ELSE bundle.seed_phrase.text)]_vars
    /\ [][\A h \in Handles :
             (Current(h) /\ h # 0 /\ has_keys /\ fuego_wallet_export_keys(h))
             => /\ ret'.op = "export_keys" /\ ret'.ok
                /\ ret'.keys = [address |-> address, view_key |-> view_key,
                                spend_key |-> spend_key, seed_phrase |-> seed_phrase]]_vars

\* C22: the address book never holds two entries with the same address, and an
\* add through the current handle of an address that is already present fails
\* and leaves the book unchanged.
C22_AddressBookKeyedByAddress ==
    /\ [](\A i, j \in 1 .. Len(address_book) :
             i # j => address_book[i].address # address_book[j].address)
    /\ [][\A h \in Handles, addr \in BookAddresses, label \in BookLabels,
             description \in BookLabels :
             (/\ Current(h) /\ h # 0 /\ ~addr.null
              /\ \E i \in 1 .. Len(address_book) : address_book[i].address = addr.text
              /\ fuego_wallet_add_address_book_entry(h, addr, label, description, 1))
             => /\ ret'.op = "add_address_book_entry" /\ ~ret'.ok
                /\ address_book' = address_book]_vars

\* an add of an address already present was refused on a book of two entries,
\* one of which was updated and used
C22_Witness ==
    /\ ret.op = "add_address_book_entry" /\ ~ret.ok
    /\ g_real_wallet # 0
    /\ Len(address_book) = 2
    /\ \E i \in 1 .. Len(address_book) :
          address_book[i].use_count > 0 /\ address_book[i].label # <<>>

\* C23: get_transaction_by_hash and get_transaction_by_id through the current
\* handle return null (NotFound) for every hash or id that is not in the
\* transaction history.
C23_UnknownTransactionNotFound ==
    [][\A h \in Handles, tx_hash \in TxHashes :
          (/\ Current(h) /\ ~NullDeref(h)
           /\ \A i \in 1 .. Len(transaction_hashes) : transaction_hashes[i] # tx_hash
           /\ \/ fuego_wallet_get_transaction_by_hash(h, tx_hash)
              \/ fuego_wallet_get_transaction_by_id(h, tx_hash))
          => ~ret'.ok]_vars

\* C24: get_transactions(limit, offset) through the current handle returns the
\* entries of the history from position offset on, at most limit of them, in
\* insertion order or in most-recent-first order.
C24_TransactionsArePaged ==
    [][\A h \in Handles, limit \in 0 .. MaxTx, offset \in 0 .. MaxTx :
          (/\ Current(h) /\ ~NullDeref(h)
           /\ fuego_wallet_get_transactions(h, limit, offset))
          => LET n == Len(transaction_hashes)
                 last == IF offset + limit < n THEN offset + limit ELSE n
                 newest_first == [i \in 1 .. n |-> transaction_hashes[n + 1 - i]]
             IN  /\ ret'.ok
                 /\ \/ ret'.list = SubSeq(transaction_hashes, offset + 1, last)
                    \/ ret'.list = SubSeq(newest_first, offset + 1, last)]_vars

\* C25: create_deposit through the current handle appends a deposit whose rate
\* is 5% for term <= 30, 8% for 31..90, 12% for 91..180 and 15% above, whose
\* interest is the whole part of amount * rate * term / 365, and whose status is
\* locked.
C25_DepositRateAndInterest ==
    [][\A h \in Handles, amount \in DepositAmounts, term \in DepositTerms :
          (/\ Current(h) /\ ~NullDeref(h)
           /\ fuego_wallet_create_deposit(h, amount, term, 1))
          => LET d == deposits'[Len(deposits')]
                 percent == IF term <= 30 THEN 5 ELSE IF term <= 90 THEN 8
                            ELSE IF term <= 180 THEN 12 ELSE 15
             IN  /\ ret'.op = "create_deposit" /\ ret'.ok
                 /\ Len(deposits') = Len(deposits) + 1
                 /\ d.amount = amount /\ d.term = term
                 /\ d.rate = percent
                 /\ d.interest = (amount * percent * term) \div 36500
                 /\ d.status = "locked"]_vars

\* C26: create_deposit through the current handle sets unlock_height to the sync
\* height at the time of creation plus 720 blocks for each day of the term, for
\* every term (no wrap-around).
C26_UnlockHeightFromSyncHeight ==
    [][\A h \in Handles, amount \in DepositAmounts, term \in DepositTerms :
          (/\ Current(h) /\ ~NullDeref(h)
           /\ fuego_wallet_create_deposit(h, amount, term, 1))
          => deposits'[Len(deposits')].unlock_height = sync_height + term * 720]_vars

\* C27: get_sync_progress (and the JSON form of it) reports a progress percentage
\* of current_height / total_height * 100, and exactly 0 when total_height is 0.
C27_ProgressPercentage ==
    (ret.op \in {"get_sync_progress", "get_sync_status_json"} /\ ret.ok)
    => /\ ~ret.progress.nan /\ ~ret.progress.inf
       /\ ret.progress.percent =
             IF ret.progress.total_height = 0 THEN 0
             ELSE (ret.progress.current_height * 100) \div ret.progress.total_height

\* C28: every create() and every open() yields a fresh open wallet (balance 0,
\* unlocked balance 0, empty transaction history, no deposits, not connected, not
\* mining), whatever the state of the wallet created before.
C28_CreateAndOpenYieldFreshWallet ==
    [][(fuego_wallet_create(NULL_SEED) \/ fuego_wallet_open)
       => /\ Running'
          /\ ret'.ok
          /\ is_open'
          /\ balance' = 0 /\ unlocked_balance' = 0
          /\ transaction_hashes' = <<>>
          /\ deposits' = <<>>
          /\ ~is_connected' /\ ~is_mining']_vars

\* C29: while the sync worker runs and neither rescan nor connect_node (nor a
\* new wallet) is issued, no step lowers the sync height, also when refresh,
\* get_network_status or get_wallet_info step the height between the worker's
\* read and its write.
C29_SyncHeightNeverDecreases ==
    [][(/\ sync_thread_running
        /\ g_real_wallet' = g_real_wallet
        /\ \A h \in Handles :
              /\ ~fuego_wallet_connect_node(h)
              /\ \A start \in {0, 1} : ~fuego_wallet_rescan_blockchain(h, start))
       => sync_height' >= sync_height]_vars

\* C30: a successful start_mining sets total_hashes, valid_shares and
\* invalid_shares to 0, and from then until the matching stop_mining no step
\* lowers any of the three counters.
C30_MiningCountersResetThenGrow ==
    [][/\ (~is_mining /\ is_mining' /\ g_real_wallet' = g_real_wallet)
          => total_hashes' = 0 /\ valid_shares' = 0 /\ invalid_shares' = 0
       /\ (is_mining /\ is_mining' /\ g_real_wallet' = g_real_wallet)
          => /\ total_hashes' >= total_hashes
             /\ valid_shares' >= valid_shares
             /\ invalid_shares' >= invalid_shares]_vars

\* a mining session in which the worker has counted hashes and a share
C30_Witness ==
    /\ is_mining /\ mining_thread_running /\ Running
    /\ total_hashes > 0
    /\ valid_shares + invalid_shares > 0
\* C31: once stop_sync_process has cleared the running flag, the sync worker
\* that wakes from its sleep re-checks the flag and does not go on to modify the
\* sync height or is_syncing.
C31_WorkerRechecksFlagAfterSleep ==
    [][(~sync_thread_running /\ sync_pc = "sleep") => sync_pc' # "store"]_vars
\* C32: after connect_node, with the sync worker scheduled fairly and no
\* disconnect, rescan, close or new connect (in this specification a new connect
\* or create ends the process), the wallet eventually has sync height = network
\* height and is_syncing = false, and the worker's loop has ended.
C32_SyncEventuallyCompletes ==
    (Running /\ is_connected /\ is_syncing)
    ~> (\/ ~Running
        \/ (sync_height = network_height /\ ~is_syncing /\ sync_pc = "done"))
\* C33: stop_mining always terminates: with the mining worker scheduled fairly,
\* the worker sees the cleared running flag, starts no further round and exits,
\* so the join inside stop_mining returns and stop_mining returns.
C33_StopMiningTerminates ==
    /\ (caller_pc = "stop_mining_join") ~> (caller_pc = "idle" /\ ret.op = "stop_mining")
    /\ [][(caller_pc = "stop_mining_join" /\ mining_pc # "share") =>
             mining_pc' # "share"]_vars

\* the caller is blocked in join() while the worker is in the middle of a round
C33_Witness ==
    /\ caller_pc = "stop_mining_join"
    /\ mining_thread = "joinable"
    /\ mining_pc = "share"
\* C34: the status accessors get_wallet_info, get_network_status and
\* get_sync_progress do not modify the sync state: a step of one of them leaves
\* the sync height and is_syncing as they were.
C34_StatusAccessorsLeaveSyncState ==
    [][\A h \in Handles :
          (/\ Current(h) /\ h # 0
           /\ ret'.op \in {"get_wallet_info", "get_network_status", "get_sync_progress"}
           /\ \/ fuego_wallet_get_wallet_info(h)
              \/ fuego_wallet_get_network_status(h)
              \/ fuego_wallet_get_sync_progress(h))
          => (sync_height' = sync_height /\ is_syncing' = is_syncing)]_vars
\* C35: in every reachable state is_connected implies is_open: a closed wallet
\* is not connected and connect_node does not make it connected.
C35_ConnectedImpliesOpen == is_connected => is_open

\* C36: in every reachable state is_syncing implies is_connected: close,
\* disconnect_node and rescan never leave is_syncing = true with is_connected =
\* false.
C36_SyncingImpliesConnected == is_syncing => is_connected

\* C37: whenever get_wallet_info reports is_synced = true for a wallet that has
\* connected at least once (its network height is set), the same snapshot has
\* sync_height = network_height.
C37_SyncedSnapshotIsAtTip ==
    (/\ ret.op = "get_wallet_info" /\ ret.ok
     /\ ret.snap.network_height > 0
     /\ ret.snap.is_synced)
    => ret.snap.sync_height = ret.snap.network_height
\* C38: deposit ids are unique within a wallet: after any sequence of
\* create_deposit calls, also two with the same amount and term in the same
\* clock second, no two deposits share an id.
C38_DepositIdsAreUnique ==
    \A i, j \in 1 .. Len(deposits) : i # j => deposits[i].id # deposits[j].id
\* C39: at every point between caller operations, is_mining is true exactly
\* when a mining worker thread is alive for the wallet; when true, threads is in
\* 1 .. 32 and hashrate = 1000 * threads; when false, threads = 0 and hashrate =
\* 0.
C39_MiningFlagMatchesWorker ==
    Idle =>
      /\ is_mining <=> (mining_thread = "joinable" /\ mining_pc \notin {"none", "done"})
      /\ is_mining => (threads \in 1 .. 32 /\ hashrate = 1000 * threads)
      /\ ~is_mining => (threads = 0 /\ hashrate = 0)

\* a session with the largest thread count is running, its worker in a round,
\* and the caller is between operations
C39_Witness ==
    /\ Idle /\ is_mining
    /\ threads = MAX_MINING_THREADS
    /\ mining_pc = "share"
\* C40: an operation called with a handle that is not the current wallet
\* instance (a stale handle, or the null handle when no wallet was ever created)
\* returns its failure value, changes no state and dereferences no missing
\* wallet.
C40_ForeignHandleIsRefused ==
    [][\A h \in Handles :
          (/\ (~Current(h) \/ g_real_wallet = 0)
           /\ \/ fuego_wallet_close(h)
              \/ fuego_wallet_is_open(h)
              \/ fuego_wallet_get_balance(h)
              \/ fuego_wallet_connect_node(h)
              \/ \E amount \in Amounts, now \in Clock :
                    fuego_wallet_send_transaction(h, amount, now))
          => /\ Running'
             /\ ~ret'.ok /\ ret'.amount = 0 /\ ret'.hash = <<>>
             /\ UNCHANGED <<lifeVars, netVars, ledgerVars, deposits, syncThreadVars>>]_vars
==========================================================================
